---- MODULE Spec2Model ----
(***************************************************************************)
(* gfdashsync: one run of the command reads history.json from the Gitlab   *)
(* repository (NewGitlab / parseHistory), passes every dashboard it could  *)
(* fetch to Gitlab.Add, and ends with Gitlab.Commit, which sweeps the      *)
(* orphaned history records, appends the history file action and sends     *)
(* one commit.  The repository is the only state that survives from one    *)
(* run of the command to the next.                                         *)
(***************************************************************************)
EXTENDS Naturals, Sequences, FiniteSets, TLC

(***************************************************************************)
(* Bounds of the model.                                                    *)
(***************************************************************************)
\* dashboards of one listing (loop iterations of main in one run)
MaxDashboards == 2
\* successive runs of the command on the same repository
MaxRuns == 2

\* Dashboard UIDs, in the order encoding/json writes map keys (sorted).
KeyOrder == <<"go1", "go2">>
UIDs == {KeyOrder[i] : i \in 1..Len(KeyOrder)}
\* fmt.Sprintf("/%s/%s.json", d.FolderTitle, d.Title)
Paths == {"/f/a.json", "/f/b.json"}
\* the indented JSON of a dashboard
Datas == {"d1", "d2"}

\* a nil *string / nil []byte converted by string(...)
Nil == "<nil>"
NoBytes == ""

FileCreate == "create"
FileUpdate == "update"
FileMove == "move"
FileDelete == "delete"

historyFile == "history.json"

(***************************************************************************)
(* Pure functions of main.go.                                              *)
(***************************************************************************)
\* hash: hex of the SHA-256 of the data (injective on the data of the model)
hash(data) == "sha256(" \o data \o ")"

Hashes == {hash(d) : d \in Datas}

\* the File main builds for a dashboard it fetched
NewFile(uid, path, data) ==
    [UID |-> uid, Path |-> path, SHA256 |-> hash(data), content |-> data,
     processed |-> FALSE]

Blobs == {NewFile(u, p, d) : u \in UIDs, p \in Paths, d \in Datas}

\* moved that does not look at the fingerprints
moved_PathOnly(f, hf) == (f.Path # hf.Path) /\ (f.UID = hf.UID)

moved(f, hf) == (f.Path # hf.Path) /\ (f.UID = hf.UID) /\ (f.SHA256 # hf.SHA256)

\* modified with the fingerprints compared for equality
modified_SameHash(f, hf) ==
    (f.Path = hf.Path) /\ (f.UID = hf.UID) /\ (f.SHA256 = hf.SHA256)

modified(f, hf) == (f.Path = hf.Path) /\ (f.UID = hf.UID) /\ (f.SHA256 # hf.SHA256)

\* gitlab.CommitActionOptions
Action(action, path, content, prev) ==
    [Action |-> action, FilePath |-> path, Content |-> content, PreviousPath |-> prev]

\* map helpers: m[k] = v and delete(m, k)
Put(m, k, v) == [x \in DOMAIN m \cup {k} |-> IF x = k THEN v ELSE m[x]]

Delete(m, k) == [x \in DOMAIN m \ {k} |-> m[x]]

EmptyMap == [x \in {} |-> Nil]

(***************************************************************************)
(* encoding/json on History (map[string]*File).  Only the exported fields  *)
(* uid, path and sha256 are written; content and processed are not, and a  *)
(* decoded File has nil content and processed = false.                     *)
(***************************************************************************)
MarshalFile(f) ==
    "{\"uid\":\"" \o f.UID \o "\",\"path\":\"" \o f.Path
        \o "\",\"sha256\":\"" \o f.SHA256 \o "\"}"

RECURSIVE MarshalEntries(_, _)
MarshalEntries(h, keys) ==
    IF keys = <<>> THEN ""
    ELSE "\"" \o Head(keys) \o "\":" \o MarshalFile(h[Head(keys)])
            \o (IF Tail(keys) = <<>> THEN "" ELSE ",")
            \o MarshalEntries(h, Tail(keys))

\* json.Marshal(g.history): an object, keys sorted
Marshal(h) ==
    "{" \o MarshalEntries(h, SelectSeq(KeyOrder, LAMBDA k : k \in DOMAIN h)) \o "}"

\* the Files json.Unmarshal can build from the texts of the model
DecodedFiles ==
    [UID : UIDs, Path : Paths, SHA256 : Hashes, content : {NoBytes}, processed : {FALSE}]

DecodedHistories == UNION {[K -> DecodedFiles] : K \in SUBSET UIDs}

\* the texts json.Unmarshal accepts, each with the history it decodes to
Decoded ==
    LET text == [h \in DecodedHistories |-> Marshal(h)]
    IN  [data \in {text[h] : h \in DecodedHistories} |->
            CHOOSE h \in DecodedHistories : text[h] = data]

IsJSON(data) == data \in DOMAIN Decoded

\* json.Unmarshal(data, &g.history) into the empty map NewGitlab made
Unmarshal(data) == Decoded[data]

(***************************************************************************)
(* The Gitlab repository: the files of the branch, path -> content.        *)
(* Commits.CreateCommit applies the actions in order as one commit, or     *)
(* rejects the whole batch and leaves the branch as it was.                *)
(***************************************************************************)
ApplyAction(repo, a) ==
    CASE a.Action = FileCreate -> Put(repo, a.FilePath, a.Content)
      [] a.Action = FileUpdate -> Put(repo, a.FilePath, a.Content)
      [] a.Action = FileDelete -> Delete(repo, a.FilePath)
      [] a.Action = FileMove -> Put(Delete(repo, a.PreviousPath), a.FilePath, a.Content)

\* what the service accepts: create and move need a free path, update,
\* delete and move an existing one
Accepts(repo, a) ==
    CASE a.Action = FileCreate -> a.FilePath \notin DOMAIN repo
      [] a.Action = FileUpdate -> a.FilePath \in DOMAIN repo
      [] a.Action = FileDelete -> a.FilePath \in DOMAIN repo
      [] a.Action = FileMove ->
            a.PreviousPath \in DOMAIN repo /\ a.FilePath \notin DOMAIN repo

RECURSIVE ApplyAll(_, _)
\* [ok, repo]: the branch after the actions, or ok = FALSE at the first one refused
ApplyAll(repo, actions) ==
    IF actions = <<>> THEN [ok |-> TRUE, repo |-> repo]
    ELSE IF ~Accepts(repo, Head(actions)) THEN [ok |-> FALSE, repo |-> repo]
    ELSE ApplyAll(ApplyAction(repo, Head(actions)), Tail(actions))

\* g.client.Commits.CreateCommit: net is whether the request gets through
CreateCommit(repo, actions, net) ==
    LET r == ApplyAll(repo, actions)
    IN  IF net /\ r.ok THEN [err |-> Nil, repo |-> r.repo]
        ELSE [err |-> "commit error", repo |-> repo]

\* g.client.RepositoryFiles.GetFile(historyFile): resp is what comes back,
\* "ok" (the service answers), "error" (no answer) or "corrupt" (an answer
\* whose content does not decode)
GetFile(repo, resp) ==
    IF resp = "error" THEN [err |-> "transport", status |-> 0, Content |-> Nil]
    ELSE IF historyFile \notin DOMAIN repo
         THEN [err |-> "not found", status |-> 404, Content |-> Nil]
    ELSE IF resp = "corrupt" THEN [err |-> Nil, status |-> 200, Content |-> "%%%"]
    ELSE [err |-> Nil, status |-> 200, Content |-> repo[historyFile]]

(***************************************************************************)
(* Gitlab: g = [history, historyAction, actions].                          *)
(***************************************************************************)
\* the struct literal of NewGitlab
NewG == [history |-> EmptyMap, historyAction |-> FileUpdate, actions |-> <<>>]

\* parseHistory that takes every error of GetFile for a missing file
parseHistory_AnyErrorIs404(g, repo, resp) ==
    LET f == GetFile(repo, resp)
    IN  IF f.err # Nil
        THEN [g |-> [g EXCEPT !.historyAction = FileCreate], err |-> Nil,
              status |-> f.status]
        ELSE IF ~IsJSON(f.Content)
             THEN [g |-> g, err |-> "decode", status |-> f.status]
        ELSE [g |-> [g EXCEPT !.history = Unmarshal(f.Content)], err |-> Nil,
              status |-> f.status]

\* parseHistory that leaves the history action alone on a 404
parseHistory_KeepsUpdate(g, repo, resp) ==
    LET f == GetFile(repo, resp)
    IN  IF f.err # Nil
        THEN IF f.status = 404
             THEN [g |-> g, err |-> Nil, status |-> f.status]
             ELSE [g |-> g, err |-> f.err, status |-> f.status]
        ELSE IF ~IsJSON(f.Content)
             THEN [g |-> g, err |-> "decode", status |-> f.status]
        ELSE [g |-> [g EXCEPT !.history = Unmarshal(f.Content)], err |-> Nil,
              status |-> f.status]

\* [g, err, status]
parseHistory(g, repo, resp) ==
    LET f == GetFile(repo, resp)
    IN  IF f.err # Nil
        THEN IF f.status = 404
             THEN [g |-> [g EXCEPT !.historyAction = FileCreate], err |-> Nil,
                   status |-> f.status]
             ELSE [g |-> g, err |-> f.err, status |-> f.status]
        ELSE IF ~IsJSON(f.Content)
             THEN [g |-> g, err |-> "decode", status |-> f.status]
        ELSE [g |-> [g EXCEPT !.history = Unmarshal(f.Content)], err |-> Nil,
              status |-> f.status]

\* add that appends the action and forgets the history record
add_NoRecord(g, in, action, prevPath) ==
    LET opt == Action(action, in.Path, in.content,
                      IF prevPath # "" THEN prevPath ELSE Nil)
    IN  [g EXCEPT !.actions = Append(@, opt)]

\* add that starts a new history map with the File
add_FreshHistory(g, in, action, prevPath) ==
    LET f == [in EXCEPT !.processed = TRUE]
        opt == Action(action, in.Path, in.content,
                      IF prevPath # "" THEN prevPath ELSE Nil)
    IN  [g EXCEPT !.actions = Append(@, opt), !.history = Put(EmptyMap, in.UID, f)]

add(g, in, action, prevPath) ==
    LET f == [in EXCEPT !.processed = TRUE]
        opt == Action(action, in.Path, in.content,
                      IF prevPath # "" THEN prevPath ELSE Nil)
    IN  [g EXCEPT !.actions = Append(@, opt), !.history = Put(@, in.UID, f)]

\* Add that gives a move the new path as its previous path
Add_PrevPathOfIn(g, in) ==
    IF in.UID \notin DOMAIN g.history THEN add(g, in, FileCreate, "")
    ELSE LET hf == g.history[in.UID]
         IN  IF moved(in, hf) THEN add(g, in, FileMove, in.Path)
             ELSE IF modified(in, hf) THEN add(g, in, FileUpdate, "")
             ELSE [g EXCEPT !.history[in.UID].processed = TRUE]

\* Add that does not mark the record of an unchanged File
Add_NoMark(g, in) ==
    IF in.UID \notin DOMAIN g.history THEN add(g, in, FileCreate, "")
    ELSE LET hf == g.history[in.UID]
         IN  IF moved(in, hf) THEN add(g, in, FileMove, hf.Path)
             ELSE IF modified(in, hf) THEN add(g, in, FileUpdate, "")
             ELSE g

\* Add that ignores a File whose record was already processed in this run
Add_FirstWins(g, in) ==
    IF in.UID \notin DOMAIN g.history THEN add(g, in, FileCreate, "")
    ELSE LET hf == g.history[in.UID]
         IN  IF hf.processed THEN g
             ELSE IF moved(in, hf) THEN add(g, in, FileMove, hf.Path)
             ELSE IF modified(in, hf) THEN add(g, in, FileUpdate, "")
             ELSE [g EXCEPT !.history[in.UID].processed = TRUE]

Add(g, in) ==
    IF in.UID \notin DOMAIN g.history THEN add(g, in, FileCreate, "")
    ELSE LET hf == g.history[in.UID]
         IN  IF moved(in, hf) THEN add(g, in, FileMove, hf.Path)
             ELSE IF modified(in, hf) THEN add(g, in, FileUpdate, "")
             ELSE [g EXCEPT !.history[in.UID].processed = TRUE]

updateHistory(g) ==
    IF Cardinality(DOMAIN g.history) = 0 THEN g
    ELSE [g EXCEPT !.actions =
            Append(@, Action(g.historyAction, historyFile, Marshal(g.history), Nil))]

\* the orders in which range may visit the keys of a map
Orders(S) == {o \in [1..Cardinality(S) -> S] : \A i, j \in DOMAIN o : o[i] = o[j] => i = j}

RECURSIVE deleteOrphansIn(_, _)
\* the loop of deleteOrphans over the keys still to visit; a key deleted
\* before it is reached is not visited
deleteOrphansIn(g, order) ==
    IF order = <<>> THEN g
    ELSE IF Head(order) \notin DOMAIN g.history THEN deleteOrphansIn(g, Tail(order))
    ELSE LET f == g.history[Head(order)]
         IN  IF f.processed THEN deleteOrphansIn(g, Tail(order))
             ELSE deleteOrphansIn(
                    [g EXCEPT !.actions = Append(@, Action(FileDelete, f.Path, Nil, Nil)),
                              !.history = Delete(@, f.UID)],
                    Tail(order))

\* deleteOrphans without the test of the processed flag
deleteOrphans_NoSkip(g, order) ==
    deleteOrphansIn(
        [g EXCEPT !.history =
            [k \in DOMAIN g.history |-> [g.history[k] EXCEPT !.processed = FALSE]]],
        order)

\* deleteOrphans that appends the deletes and keeps the records
deleteOrphans_KeepsRecord(g, order) ==
    [deleteOrphansIn(g, order) EXCEPT !.history = g.history]

deleteOrphans(g, order) == deleteOrphansIn(g, order)

\* Commit without the test for an empty action list
Commit_NoEmptyTest(g, repo, order, net) ==
    LET full == updateHistory(deleteOrphans(g, order))
        r == CreateCommit(repo, full.actions, net)
    IN  [g |-> full, repo |-> r.repo, err |-> r.err, sent |-> <<full.actions>>]

\* Commit that sends the batch a second time when the first call fails
Commit_Retry(g, repo, order, net) ==
    LET swept == deleteOrphans(g, order)
    IN  IF Len(swept.actions) = 0
        THEN [g |-> swept, repo |-> repo, err |-> Nil, sent |-> <<>>]
        ELSE LET full == updateHistory(swept)
                 r == CreateCommit(repo, full.actions, net)
                 again == CreateCommit(repo, full.actions, TRUE)
             IN  IF r.err = Nil
                 THEN [g |-> full, repo |-> r.repo, err |-> r.err,
                       sent |-> <<full.actions>>]
                 ELSE [g |-> full, repo |-> again.repo, err |-> again.err,
                       sent |-> <<full.actions, full.actions>>]

\* [g, repo, err, sent]: sent holds the batches handed to CreateCommit
Commit(g, repo, order, net) ==
    LET swept == deleteOrphans(g, order)
    IN  IF Len(swept.actions) = 0
        THEN [g |-> swept, repo |-> repo, err |-> Nil, sent |-> <<>>]
        ELSE LET full == updateHistory(swept)
                 r == CreateCommit(repo, full.actions, net)
             IN  [g |-> full, repo |-> r.repo, err |-> r.err, sent |-> <<full.actions>>]

(***************************************************************************)
(* The command.  pc is the position of main: "start" before NewGitlab,     *)
(* "list" before gf.Dashboards, "loop" in the loop over the dashboards,    *)
(* "done" after Commit returned nil, "fatal" after log.Fatal.              *)
(***************************************************************************)
VARIABLES
    pc,         \* position of main
    git,        \* the Gitlab value of this run
    repo,       \* the files of the branch, history.json among them
    status,     \* HTTP status of the GetFile of this run (0: none)
    adds,       \* the Files passed to git.Add in this run, in order
    skipped,    \* the UIDs of the dashboards this run could not fetch
    err,        \* the error this run ended with, Nil if none
    sent,       \* the batches this run handed to CreateCommit, in order
    runs,       \* the number of this run
    repeating,  \* the run before ended without error and this run has so
                \* far been given the Files of that run, in the same order
    todo        \* the Files of the run before still to come, if repeating

vars == <<pc, git, repo, status, adds, skipped, err, sent, runs, repeating, todo>>

\* the elements of a sequence
ToSet(seq) == {seq[i] : i \in 1..Len(seq)}

\* the repository a history h was committed with: one file per record,
\* holding the data of the record's fingerprint, and history.json
RepoOf(K, path, data) ==
    LET h == [k \in K |-> [UID |-> k, Path |-> path[k], SHA256 |-> hash(data[k]),
                           content |-> NoBytes, processed |-> FALSE]]
        files == [p \in {path[k] : k \in K} |->
                    data[CHOOSE k \in K : path[k] = p]]
    IN  IF K = {} THEN EmptyMap ELSE Put(files, historyFile, Marshal(h))

\* the repositories a run may find: a new one, or what earlier runs left
InitRepos ==
    UNION {{RepoOf(K, path, data) :
                path \in {f \in [K -> Paths] : \A i, j \in K : f[i] = f[j] => i = j},
                data \in [K -> Datas]}
            : K \in SUBSET UIDs}

Init ==
    /\ pc = "start"
    /\ git = NewG
    /\ repo \in InitRepos
    /\ status = 0
    /\ adds = <<>>
    /\ skipped = <<>>
    /\ err = Nil
    /\ sent = <<>>
    /\ runs = 1
    /\ repeating = FALSE
    /\ todo = <<>>

\* main: git, err := NewGitlab(...)
StartRun ==
    /\ pc = "start"
    /\ \E resp \in {"ok", "error", "corrupt"} :
        LET r == parseHistory(NewG, repo, resp)
        IN  /\ status' = r.status
            /\ git' = r.g
            /\ err' = r.err
            /\ pc' = IF r.err = Nil THEN "list" ELSE "fatal"
    /\ UNCHANGED <<repo, adds, skipped, sent, runs, repeating, todo>>

\* main: dashboards, err := gf.Dashboards()
ListDashboards ==
    /\ pc = "list"
    /\ \E ok \in BOOLEAN :
        /\ pc' = IF ok THEN "loop" ELSE "fatal"
        /\ err' = IF ok THEN Nil ELSE "grafana"
    /\ UNCHANGED <<git, repo, status, adds, skipped, sent, runs, repeating, todo>>

\* main: one iteration of the loop that fetches the dashboard and adds it
AddDashboard ==
    /\ pc = "loop"
    /\ Len(adds) + Len(skipped) < MaxDashboards
    /\ \E f \in Blobs :
        /\ git' = Add(git, f)
        /\ adds' = Append(adds, f)
        /\ repeating' = (repeating /\ todo # <<>> /\ Head(todo) = f)
        /\ todo' = IF repeating' THEN Tail(todo) ELSE <<>>
    /\ UNCHANGED <<pc, repo, status, skipped, err, sent, runs>>

\* the iteration ends the run when the fetch fails (log.Fatal for continue)
SkipDashboard_Aborts ==
    /\ pc = "loop"
    /\ Len(adds) + Len(skipped) < MaxDashboards
    /\ \E u \in UIDs : skipped' = Append(skipped, u)
    /\ pc' = "fatal"
    /\ err' = "grafana"
    /\ UNCHANGED <<git, repo, status, adds, sent, runs, repeating, todo>>

\* main: one iteration of the loop whose fetch or conversion fails (continue)
SkipDashboard ==
    /\ pc = "loop"
    /\ Len(adds) + Len(skipped) < MaxDashboards
    /\ \E u \in UIDs : skipped' = Append(skipped, u)
    /\ UNCHANGED <<pc, git, repo, status, adds, err, sent, runs, repeating, todo>>

\* main: git.Commit() after the loop
CommitRun ==
    /\ pc = "loop"
    /\ \E order \in Orders(DOMAIN git.history), net \in BOOLEAN :
        LET r == Commit(git, repo, order, net)
        IN  /\ git' = r.g
            /\ repo' = r.repo
            /\ err' = r.err
            /\ sent' = r.sent
            /\ pc' = IF r.err = Nil THEN "done" ELSE "fatal"
    /\ UNCHANGED <<status, adds, skipped, runs, repeating, todo>>

\* the command is run again on the repository the run before left
Restart ==
    /\ pc \in {"done", "fatal"}
    /\ runs < MaxRuns
    /\ runs' = runs + 1
    /\ pc' = "start"
    /\ git' = NewG
    /\ status' = 0
    /\ adds' = <<>>
    /\ skipped' = <<>>
    /\ err' = Nil
    /\ sent' = <<>>
    /\ repeating' = (pc = "done")
    /\ todo' = IF pc = "done" THEN adds ELSE <<>>
    /\ UNCHANGED repo

Next ==
    \/ StartRun
    \/ ListDashboards
    \/ AddDashboard
    \/ SkipDashboard
    \/ CommitRun
    \/ Restart

Spec == Init /\ [][Next]_vars

(***************************************************************************)
(* Vocabulary of the properties.                                           *)
(***************************************************************************)
\* the step is a call of git.Add
AddStep == pc = "loop" /\ pc' = "loop" /\ Len(adds') = Len(adds) + 1

\* the File that call is given
AddedFile == adds'[Len(adds')]

\* the step is the call of git.Commit
CommitStep == pc = "loop" /\ pc' \in {"done", "fatal"}

\* the history record {id, path, fingerprint} of a File
Record(f) == [UID |-> f.UID, Path |-> f.Path, SHA256 |-> f.SHA256]

\* the actions a step appended to the action list
Appended == SubSeq(git'.actions, Len(git.actions) + 1, Len(git'.actions))

\* the step kept the actions there were
KeepsActions ==
    /\ Len(git'.actions) >= Len(git.actions)
    /\ SubSeq(git'.actions, 1, Len(git.actions)) = git.actions

\* C4: Add of a File whose UID has no history record appends exactly one
\* action, a create of the File's path with its content, and inserts the
\* File's record under its UID; every other record stays as it was.
C4_AddCreates ==
    [][(AddStep /\ AddedFile.UID \notin DOMAIN git.history) =>
        /\ KeepsActions
        /\ Len(Appended) = 1
        /\ Appended[1].Action = FileCreate
        /\ Appended[1].FilePath = AddedFile.Path
        /\ Appended[1].Content = AddedFile.content
        /\ DOMAIN git'.history = DOMAIN git.history \cup {AddedFile.UID}
        /\ Record(git'.history[AddedFile.UID]) = Record(AddedFile)
        /\ \A k \in DOMAIN git.history : git'.history[k] = git.history[k]
      ]_vars

\* a create was appended for a new UID beside a record of another UID
C4_Witness ==
    /\ pc = "loop"
    /\ Len(adds) = 1
    /\ Len(git.actions) = 1
    /\ git.actions[1].Action = FileCreate
    /\ git.actions[1].FilePath = adds[1].Path
    /\ \E k \in DOMAIN git.history : k # adds[1].UID /\ ~git.history[k].processed

\* C5: Add of a File whose UID has a record with another path and another
\* fingerprint appends exactly one action, a move from the recorded path to
\* the File's path, and overwrites the record with the File's.
C5_AddMoves ==
    [][(/\ AddStep
        /\ AddedFile.UID \in DOMAIN git.history
        /\ git.history[AddedFile.UID].Path # AddedFile.Path
        /\ git.history[AddedFile.UID].SHA256 # AddedFile.SHA256) =>
        /\ KeepsActions
        /\ Len(Appended) = 1
        /\ Appended[1].Action = FileMove
        /\ Appended[1].PreviousPath = git.history[AddedFile.UID].Path
        /\ Appended[1].FilePath = AddedFile.Path
        /\ Record(git'.history[AddedFile.UID]) = Record(AddedFile)
      ]_vars

\* a move was appended for a record loaded from history.json
C5_Witness ==
    /\ pc = "loop"
    /\ Len(adds) = 1
    /\ Len(git.actions) = 1
    /\ git.actions[1].Action = FileMove
    /\ status = 200
    /\ git.actions[1].PreviousPath \in DOMAIN repo
    /\ git.actions[1].PreviousPath # adds[1].Path
    /\ git.history[adds[1].UID].Path = adds[1].Path

\* C6: Add of a File whose UID has a record with the same path and another
\* fingerprint appends exactly one action, an update of the File's path
\* with its content, and the record takes the File's fingerprint.
C6_AddUpdates ==
    [][(/\ AddStep
        /\ AddedFile.UID \in DOMAIN git.history
        /\ git.history[AddedFile.UID].Path = AddedFile.Path
        /\ git.history[AddedFile.UID].SHA256 # AddedFile.SHA256) =>
        /\ KeepsActions
        /\ Len(Appended) = 1
        /\ Appended[1].Action = FileUpdate
        /\ Appended[1].FilePath = AddedFile.Path
        /\ Appended[1].Content = AddedFile.content
        /\ git'.history[AddedFile.UID].SHA256 = AddedFile.SHA256
        /\ git'.history[AddedFile.UID].Path = git.history[AddedFile.UID].Path
      ]_vars

\* an update was appended for a record loaded from history.json
C6_Witness ==
    /\ pc = "loop"
    /\ Len(adds) = 1
    /\ status = 200
    /\ Len(git.actions) = 1
    /\ git.actions[1].Action = FileUpdate
    /\ git.history[adds[1].UID].SHA256 = adds[1].SHA256

\* the history this run loaded: read off history.json, which no step before
\* the commit of the run changes
LoadedHistory ==
    IF historyFile \in DOMAIN repo THEN Unmarshal(repo[historyFile]) ELSE EmptyMap

\* the unprocessed records of the in-memory history
Unprocessed == {k \in DOMAIN git.history : ~git.history[k].processed}

\* the delete actions a step appended
AppendedDeletes == SelectSeq(Appended, LAMBDA a : a.Action = FileDelete)

\* C7: Add of a File whose UID has a record with the same fingerprint, at
\* the same path or another, appends no action and marks the record as
\* processed; a processed record stays processed for the rest of the run,
\* and the sweep of Commit keeps every processed record and appends
\* deletes only for the unprocessed ones.
C7_AddUnchanged ==
    [][/\ (/\ AddStep
           /\ AddedFile.UID \in DOMAIN git.history
           /\ git.history[AddedFile.UID].SHA256 = AddedFile.SHA256) =>
            /\ git'.actions = git.actions
            /\ git'.history[AddedFile.UID].processed
            /\ Record(git'.history[AddedFile.UID]) = Record(git.history[AddedFile.UID])
       /\ (pc = "loop" /\ pc' = "loop") =>
            \A k \in DOMAIN git.history :
                git.history[k].processed =>
                    k \in DOMAIN git'.history /\ git'.history[k].processed
       /\ CommitStep =>
            /\ \A k \in DOMAIN git.history :
                git.history[k].processed =>
                    k \in DOMAIN git'.history /\ git'.history[k] = git.history[k]
            /\ Len(AppendedDeletes) = Cardinality(Unprocessed)
      ]_vars

\* a run ended in which a record was matched by a File of the same
\* fingerprint at another path, and a delete was sent for the other record
C7_Witness ==
    /\ pc = "done"
    /\ Len(adds) = 1
    /\ adds[1].UID \in DOMAIN git.history
    /\ git.history[adds[1].UID].SHA256 = adds[1].SHA256
    /\ git.history[adds[1].UID].Path # adds[1].Path
    /\ git.history[adds[1].UID].content = NoBytes
    /\ git.history[adds[1].UID].processed
    /\ Len(sent) = 1
    /\ sent[1][1].Action = FileDelete

\* C8: Commit appends exactly one delete, on the record's path, for every
\* record of the loaded history whose UID was never passed to Add in the
\* run, removes these records from the history, and appends no other
\* delete.
C8_OrphanSweep ==
    [][CommitStep =>
        LET orphans == {k \in DOMAIN LoadedHistory :
                            \A i \in 1..Len(adds) : adds[i].UID # k}
        IN  /\ KeepsActions
            /\ \E o \in Orders(orphans) :
                /\ Len(AppendedDeletes) = Len(o)
                /\ \A i \in 1..Len(o) :
                    AppendedDeletes[i].FilePath = LoadedHistory[o[i]].Path
            /\ \A k \in orphans : k \notin DOMAIN git'.history
      ]_vars

\* a run ended that added a File and swept the record of another UID
C8_Witness ==
    /\ pc = "done"
    /\ Len(adds) = 1
    /\ Len(sent) = 1
    /\ \E i \in 1..Len(sent[1]) :
        /\ sent[1][i].Action = FileDelete
        /\ sent[1][i].FilePath # adds[1].Path
    /\ DOMAIN git.history = {adds[1].UID}

\* C9: when the action list is empty after the sweep (no action was added
\* and every record is processed), Commit returns nil, appends no action,
\* hands nothing to CreateCommit and leaves the repository as it was.
C9_NothingToCommit ==
    [][(CommitStep /\ git.actions = <<>> /\ Unprocessed = {}) =>
        /\ pc' = "done"
        /\ err' = Nil
        /\ git'.actions = <<>>
        /\ sent' = <<>>
        /\ repo' = repo
      ]_vars

\* a run ended without a commit after every record of a loaded history
\* was matched by an unchanged File
C9_Witness ==
    /\ pc = "done"
    /\ status = 200
    /\ adds # <<>>
    /\ git.actions = <<>>
    /\ sent = <<>>
    /\ DOMAIN git.history = {adds[i].UID : i \in 1..Len(adds)}

\* the run got past NewGitlab
Loaded == pc \in {"list", "loop", "done"} \/ (pc = "fatal" /\ err \in {"grafana", "commit error"})

\* the actions on history.json of a batch
HistoryActions(batch) == SelectSeq(batch, LAMBDA a : a.FilePath = historyFile)

\* C10: once the history is loaded the kind of the history file action is
\* create if GetFile answered 404 and update if the file was read, it does
\* not change for the rest of the run, a run that got 404 starts from the
\* empty history, and the history file action of a batch has that kind.
C10_HistoryActionFixed ==
    /\ [](Loaded =>
            /\ status \in {200, 404}
            /\ (git.historyAction = FileCreate) <=> (status = 404)
            /\ (git.historyAction = FileUpdate) <=> (status = 200)
            /\ \A i \in 1..Len(sent) :
                \A j \in 1..Len(HistoryActions(sent[i])) :
                    HistoryActions(sent[i])[j].Action = git.historyAction)
    /\ [][/\ (pc = "start" /\ status' = 404) => git'.history = EmptyMap
          /\ (pc # "start" /\ pc' # "start") => git'.historyAction = git.historyAction
         ]_vars

\* a run that got 404 for history.json sent a batch that creates it
C10_Witness ==
    /\ pc = "done"
    /\ status = 404
    /\ Len(sent) = 1
    /\ Len(HistoryActions(sent[1])) = 1
    /\ HistoryActions(sent[1])[1].Action = FileCreate

\* Commit returned in this run
CommitReturned == pc = "done" \/ (pc = "fatal" /\ err = "commit error")

\* C1: a run that follows a run ended without error, loads the history
\* that run left and is given the same Files ends with an empty action
\* list and hands nothing to CreateCommit.
C1_Idempotent ==
    (CommitReturned /\ repeating /\ todo = <<>>) =>
        (git.actions = <<>> /\ sent = <<>>)

\* C2: every batch handed to CreateCommit with a content action in it holds
\* exactly one action on history.json, as its last action, with the
\* serialization of the in-memory history as content.
C2_HistoryActionLast ==
    \A i \in 1..Len(sent) :
        LET batch == sent[i]
        IN  (\E j \in 1..Len(batch) : batch[j].FilePath # historyFile) =>
                /\ Len(HistoryActions(batch)) = 1
                /\ batch[Len(batch)].FilePath = historyFile
                /\ batch[Len(batch)].Content = Marshal(git.history)

\* the content files of a repository
ContentFiles(r) == DOMAIN r \ {historyFile}

\* C3: a successful Commit of a run that started from a repository whose
\* content files are the paths of its history and added Files of pairwise
\* distinct UIDs leaves exactly the added Files as content files, each with
\* its content at its path.
C3_Mirror ==
    [][(/\ CommitStep
        /\ pc' = "done"
        /\ ContentFiles(repo) = {LoadedHistory[k].Path : k \in DOMAIN LoadedHistory}
        /\ \A i, j \in 1..Len(adds) : adds[i].UID = adds[j].UID => i = j) =>
        /\ ContentFiles(repo') = {adds[i].Path : i \in 1..Len(adds)}
        /\ \A i \in 1..Len(adds) : repo'[adds[i].Path] = adds[i].content
      ]_vars

\* the run was aborted by NewGitlab
LoadFailed == pc = "fatal" /\ err \in {"transport", "decode"}

\* C11: a load of the history that fails otherwise than by a 404 (no
\* answer, or content that does not decode) ends the run with an error
\* before any Add: a run goes on only after a 404 or with the history that
\* history.json holds; the aborted run has no action, called neither Add
\* nor CreateCommit and left the repository as it was.
C11_LoadFailureAborts ==
    /\ [](LoadFailed => (adds = <<>> /\ git.actions = <<>> /\ sent = <<>>))
    /\ [][/\ (pc = "start" /\ pc' # "start") =>
                /\ (status' = 0) => (pc' = "fatal")
                /\ (pc' # "fatal") =>
                        \/ status' = 404 /\ historyFile \notin DOMAIN repo
                        \/ status' = 200 /\ git'.history = LoadedHistory
                /\ (pc' = "fatal") =>
                        /\ err' \in {"transport", "decode"}
                        /\ repo' = repo
                        /\ git'.actions = <<>>
          /\ LoadFailed => (repo' = repo /\ pc' \in {"fatal", "start"})
         ]_vars

\* a run was aborted because history.json did not decode
C11_Witness ==
    /\ LoadFailed
    /\ err = "decode"
    /\ status = 200
    /\ historyFile \in DOMAIN repo

RECURSIVE AddAll(_, _)
\* the loop of main over the Files it could fetch
AddAll(g, files) ==
    IF files = <<>> THEN g ELSE AddAll(Add(g, Head(files)), Tail(files))

\* a run of the command on repository r that loads the history, is given
\* the Files and commits: what Commit returns
Run(r, files, order, net) ==
    Commit(AddAll(parseHistory(NewG, r, "ok").g, files), r, order, net)

\* C12: a failed commit call makes Commit return an error after that one
\* call, with the repository as it was; and a new run on the repository the
\* failed run left, given the same Files, computes the same set of actions
\* as the failed run, whatever order its sweep takes.
C12_CommitFailure ==
    [][CommitStep =>
        /\ Len(sent') <= 1
        /\ (pc' = "fatal") =>
                /\ err' = "commit error"
                /\ Len(sent') = 1
                /\ repo' = repo
                /\ \A o \in Orders(DOMAIN LoadedHistory') :
                        ToSet(Run(repo', adds, o, TRUE).g.actions) = ToSet(git'.actions)
      ]_vars

\* a commit of two actions and the history failed
C12_Witness ==
    /\ pc = "fatal"
    /\ err = "commit error"
    /\ Len(adds) = 2
    /\ Len(sent) = 1
    /\ Len(sent[1]) = 3
    /\ status = 200

\* the step is an iteration of main whose fetch or conversion failed
SkipStep == pc = "loop" /\ Len(skipped') = Len(skipped) + 1

\* the UIDs passed to Add in this run
AddedUIDs == {adds[i].UID : i \in 1..Len(adds)}

C14_DeterministicOrder ==
    [][CommitStep =>
        \A o \in Orders(DOMAIN git.history) :
            Commit(git, repo, o, TRUE).g.actions = git'.actions
      ]_vars

\* the Files of the run have pairwise distinct UIDs
DistinctUIDs == \A i, j \in 1..Len(adds) : adds[i].UID = adds[j].UID => i = j

\* the sequence files taken in the order p of its indices
Reordered(files, p) == [i \in 1..Len(files) |-> files[p[i]]]

\* C15: when the Files of a run have pairwise distinct UIDs, a run on the
\* same repository given the same Files in any other order ends, after
\* Commit, with the same set of actions and the same history.
C15_OrderIndependent ==
    [][(CommitStep /\ DistinctUIDs) =>
        \A p \in Orders(1..Len(adds)) :
            \A o \in Orders(DOMAIN LoadedHistory \cup AddedUIDs) :
                LET r == Run(repo, Reordered(adds, p), o, TRUE)
                IN  /\ ToSet(r.g.actions) = ToSet(git'.actions)
                    /\ r.g.history = git'.history
      ]_vars

\* a run ended that was given two Files of different UIDs, both of which
\* changed a loaded record
C15_Witness ==
    /\ pc = "done"
    /\ status = 200
    /\ Len(adds) = 2
    /\ adds[1].UID # adds[2].UID
    /\ Len(sent) = 1
    /\ Len(sent[1]) = 3
    /\ sent[1][1].Action = FileUpdate
    /\ sent[1][2].Action = FileUpdate

\* File f is a pure rename of its record in history h
PureRename(f, h) ==
    /\ f.UID \in DOMAIN h
    /\ h[f.UID].SHA256 = f.SHA256
    /\ h[f.UID].Path # f.Path

\* the paths an action targets
Targets(a) == {a.FilePath} \cup (IF a.Action = FileMove THEN {a.PreviousPath} ELSE {})

\* C16 as claimed: a run that is given a pure rename of a loaded record
\* ends with no Delete of the old path and no Create or Move to the new
\* path among its actions, and the record keeps the old path.
C16_NoActionOnEitherPath ==
    [][CommitStep =>
        \A i \in 1..Len(adds) :
            PureRename(adds[i], LoadedHistory) =>
                /\ \A j \in 1..Len(git'.actions) :
                    LET a == git'.actions[j]
                    IN  /\ ~(a.Action = FileDelete
                             /\ a.FilePath = LoadedHistory[adds[i].UID].Path)
                        /\ ~(a.Action \in {FileCreate, FileMove}
                             /\ a.FilePath = adds[i].Path)
                /\ adds[i].UID \in DOMAIN git'.history
                /\ git'.history[adds[i].UID].Path = LoadedHistory[adds[i].UID].Path
      ]_vars

\* C16: Add of a File that is a pure rename of its record appends no
\* action and leaves the record as it was but processed; and when the run
\* gives no other File of that UID, Commit appends deletes only for the
\* unprocessed records, so none for this one, the record keeps the old
\* path, and every history.json content sent names the old path for it.
C16_RenameLost ==
    [][/\ (AddStep /\ PureRename(AddedFile, git.history)) =>
            /\ git'.actions = git.actions
            /\ Record(git'.history[AddedFile.UID]) = Record(git.history[AddedFile.UID])
            /\ git'.history[AddedFile.UID].processed
       /\ CommitStep =>
            \A i \in 1..Len(adds) :
                (/\ PureRename(adds[i], LoadedHistory)
                 /\ \A j \in 1..Len(adds) : adds[j].UID = adds[i].UID => j = i) =>
                    /\ Len(git.actions) < Len(adds)
                    /\ adds[i].UID \notin Unprocessed
                    /\ Len(AppendedDeletes) = Cardinality(Unprocessed)
                    /\ adds[i].UID \in DOMAIN git'.history
                    /\ git'.history[adds[i].UID].Path = LoadedHistory[adds[i].UID].Path
                    /\ \A n \in 1..Len(sent') :
                        \A m \in 1..Len(HistoryActions(sent'[n])) :
                            Unmarshal(HistoryActions(sent'[n])[m].Content)[adds[i].UID].Path
                                = LoadedHistory[adds[i].UID].Path
      ]_vars

\* a commit went through in a run that was given a pure rename: the
\* history.json it wrote names another path than the File's
C16_Witness ==
    /\ pc = "done"
    /\ status = 200
    /\ Len(sent) = 1
    /\ Len(HistoryActions(sent[1])) = 1
    /\ \E i \in 1..Len(adds) :
        /\ PureRename(adds[i], Unmarshal(repo[historyFile]))
        /\ git.history[adds[i].UID].content = NoBytes
        /\ adds[i].Path \notin DOMAIN repo

\* the step is a call of Add with a File whose UID an earlier call of the
\* run was given with another path or fingerprint
DuplicateAddStep ==
    /\ AddStep
    /\ \E i \in 1..Len(adds) :
        /\ adds[i].UID = AddedFile.UID
        /\ Record(adds[i]) # Record(AddedFile)

\* C17 as claimed: after the later of two distinct Files of one UID is
\* added, the record of that UID holds that File's path and fingerprint.
C17_LastWriteWins ==
    [][DuplicateAddStep =>
        Record(git'.history[AddedFile.UID]) = Record(AddedFile)
      ]_vars

\* C17: after the later of two distinct Files of one UID is added, the
\* record of that UID holds that File's fingerprint; it holds that File's
\* path when the fingerprint differs from the one the record held before
\* the call, and keeps the path it held otherwise.
C17_LastFingerprintWins ==
    [][DuplicateAddStep =>
        LET hf == git.history[AddedFile.UID]
            nf == git'.history[AddedFile.UID]
        IN  /\ nf.UID = AddedFile.UID
            /\ nf.SHA256 = AddedFile.SHA256
            /\ nf.processed
            /\ nf.Path = IF AddedFile.SHA256 = hf.SHA256 THEN hf.Path ELSE AddedFile.Path
      ]_vars

\* two Files of one UID and one fingerprint with different paths were
\* added, and the record names the path of the first
C17_Witness ==
    /\ pc = "loop"
    /\ Len(adds) = 2
    /\ adds[1].UID = adds[2].UID
    /\ adds[1].SHA256 = adds[2].SHA256
    /\ adds[1].Path # adds[2].Path
    /\ git.history[adds[2].UID].Path = adds[1].Path
    /\ git.history[adds[2].UID].processed

\* the loaded records whose UID no Add of the run was given
NotAdded == DOMAIN LoadedHistory \ AddedUIDs

\* C18: Commit leaves an in-memory history whose UIDs are exactly the UIDs
\* given to Add in the run, with every record processed; the deletes of
\* the run are all appended by that Commit, one for each loaded record
\* whose UID was not added, on that record's path, and none for an added
\* UID.
C18_HistoryIsAdded ==
    [][CommitStep =>
        /\ DOMAIN git'.history = AddedUIDs
        /\ \A k \in DOMAIN git'.history :
            git'.history[k].processed /\ git'.history[k].UID = k
        /\ \A i \in 1..Len(git.actions) : git.actions[i].Action # FileDelete
        /\ Unprocessed = NotAdded
        /\ Len(AppendedDeletes) = Cardinality(NotAdded)
        /\ {AppendedDeletes[i].FilePath : i \in 1..Len(AppendedDeletes)}
                = {LoadedHistory[k].Path : k \in NotAdded}
      ]_vars

\* a commit went through for a run that loaded a record of one UID and
\* was given a File of the other only: one delete, and the history holds
\* the added UID alone
C18_Witness ==
    /\ pc = "done"
    /\ status = 200
    /\ AddedUIDs = {"go2"}
    /\ DOMAIN git.history = {"go2"}
    /\ Len(sent) = 1
    /\ Len(sent[1]) = 3
    /\ sent[1][2].Action = FileDelete

\* no two actions of the batch target one path
DisjointTargets(batch) ==
    \A i, j \in 1..Len(batch) :
        i # j => Targets(batch[i]) \cap Targets(batch[j]) = {}

\* C19: when the Files given to Add in the run have pairwise distinct
\* UIDs, no path is targeted by more than one action of a batch handed to
\* CreateCommit, counting the file path of an action and the previous path
\* of a move.
C19_OneActionPerPath ==
    [][(CommitStep /\ DistinctUIDs) =>
        \A n \in 1..Len(sent') : DisjointTargets(sent'[n])
      ]_vars

\* the history that history.json of repository r holds, as records
StoredHistory(r) ==
    IF historyFile \in DOMAIN r
    THEN LET h == Unmarshal(r[historyFile]) IN [k \in DOMAIN h |-> Record(h[k])]
    ELSE EmptyMap

\* the in-memory history as records
MemoryHistory(g) == [k \in DOMAIN g.history |-> Record(g.history[k])]

\* C20: over successive runs of the program on the repository it left,
\* after every commit that went through history.json holds the in-memory
\* history of the end of the run; every record a run loads names a content
\* file of the repository, and every delete of a run is on a file the
\* repository holds.
C20_StoredHistoryInSync ==
    [][/\ (CommitStep /\ pc' = "done" /\ Len(sent') = 1) =>
            StoredHistory(repo') = MemoryHistory(git')
       /\ (pc = "start" /\ pc' = "list") =>
            \A k \in DOMAIN git'.history :
                git'.history[k].Path \in ContentFiles(repo)
       /\ CommitStep =>
            \A i \in 1..Len(AppendedDeletes) :
                AppendedDeletes[i].FilePath \in ContentFiles(repo)
      ]_vars

====
